---- MODULE Spec2Model ----
(***************************************************************************)
(* The casbin policy adapter for PostgreSQL (src/adapter.go): the rule     *)
(* codec (savePolicyLine / loadPolicyLine) and the storage adapter         *)
(* (LoadPolicy, SavePolicy, AddPolicy, RemovePolicy, RemoveFilteredPolicy) *)
(* over the relations of one database.                                     *)
(*                                                                         *)
(* A text line is kept as the sequence of the pieces the code appends to   *)
(* it with +=, the separator ", " being one piece (Sep).                   *)
(***************************************************************************)
EXTENDS Integers, Sequences, FiniteSets, Bags, TLC

VARIABLES
    db,        \* a.db: "nil" until open() stores a connection, then "open"
    x_policy,  \* relation x_policy: [exists, rows], rows a bag of CasbinRule
    policy,    \* relation policy, the one LoadPolicy selects from
    pc,        \* "idle", the next statement of a running SavePolicy, "panicked"
    pending,   \* rows SavePolicy has still to insert, in iteration order
    call,      \* the call in progress or last returned, with its outcome
    sink,      \* the model handed to the last LoadPolicy, after the call
    saved,     \* the model of the last SavePolicy that returned nil, while
               \* no insert has changed x_policy since
    cIn,       \* codec run: the (ptype, rule) handed to savePolicyLine
    cLine,     \* codec run: the CasbinRule built
    cText,     \* codec run: the line text loadPolicyLine builds
    cPc        \* codec run: "off", "in", "encoded", "decoded"

mainVars == <<db, x_policy, policy, pc, pending, call, sink, saved>>
codecVars == <<cIn, cLine, cText, cPc>>
vars == <<db, x_policy, policy, pc, pending, call, sink, saved,
          cIn, cLine, cText, cPc>>

---------------------------------------------------------------------------
(* Bounds and input domains *)

\* longest rule handed to the adapter (one more than the schema holds)
MaxFields == 7
\* AddPolicy is not offered once x_policy holds this many rows
MaxRows == 2

\* value columns v0..v5 of x_policy
NumCols == 6

Sep == ", "

AllPTypes == {"p", "p2", "g"}
PTypes == {"p", "g"}

FieldName(i) ==
    IF i = 1 THEN "alice"
    ELSE IF i = 2 THEN "data1"
    ELSE IF i = 3 THEN "read"
    ELSE "f" \o ToString(i)

\* the rule of n distinct non-empty fields alice, data1, read, f4, ...
Fields(n) == [i \in 1..n |-> FieldName(i)]

RuleA == Fields(3)
RuleB == <<"bob", "data2", "write">>
RuleG == <<"alice", "admin">>

\* rules handed to AddPolicy / RemovePolicy
Rules == {<<>>, Fields(1), RuleA} \cup {Fields(n) : n \in NumCols..MaxFields}

\* rules of the codec run: every sequence over these values, "" included
CodecValues == {"", "alice", "data1"}
CodecRules == UNION {[1..n -> CodecValues] : n \in 0..MaxFields}

---------------------------------------------------------------------------
(* Rule codec *)

\* CasbinRule{}: the zero value of the row struct
CasbinRule ==
    [PType |-> "", V0 |-> "", V1 |-> "", V2 |-> "", V3 |-> "", V4 |-> "",
     V5 |-> ""]

savePolicyLineSwapped(ptype, rule) ==
    LET l0 == [CasbinRule EXCEPT !.PType = ptype]
        l1 == IF Len(rule) > 0 THEN [l0 EXCEPT !.V1 = rule[1]] ELSE l0
        l2 == IF Len(rule) > 1 THEN [l1 EXCEPT !.V0 = rule[2]] ELSE l1
        l3 == IF Len(rule) > 2 THEN [l2 EXCEPT !.V2 = rule[3]] ELSE l2
        l4 == IF Len(rule) > 3 THEN [l3 EXCEPT !.V3 = rule[4]] ELSE l3
        l5 == IF Len(rule) > 4 THEN [l4 EXCEPT !.V4 = rule[5]] ELSE l4
        l6 == IF Len(rule) > 5 THEN [l5 EXCEPT !.V5 = rule[6]] ELSE l5
    IN  l6

\* rule[i] of the model is rule[i-1] of the code (sequences start at 1)
savePolicyLine(ptype, rule) ==
    LET l0 == [CasbinRule EXCEPT !.PType = ptype]
        l1 == IF Len(rule) > 0 THEN [l0 EXCEPT !.V0 = rule[1]] ELSE l0
        l2 == IF Len(rule) > 1 THEN [l1 EXCEPT !.V1 = rule[2]] ELSE l1
        l3 == IF Len(rule) > 2 THEN [l2 EXCEPT !.V2 = rule[3]] ELSE l2
        l4 == IF Len(rule) > 3 THEN [l3 EXCEPT !.V3 = rule[4]] ELSE l3
        l5 == IF Len(rule) > 4 THEN [l4 EXCEPT !.V4 = rule[5]] ELSE l4
        l6 == IF Len(rule) > 5 THEN [l5 EXCEPT !.V5 = rule[6]] ELSE l5
    IN  l6

\* the lineText of loadPolicyLine, before it is handed to the line loader
lineText(line) ==
    LET t0 == <<line.PType>>
        t1 == IF line.V0 # "" THEN t0 \o <<Sep, line.V0>> ELSE t0
        t2 == IF line.V1 # "" THEN t1 \o <<Sep, line.V1>> ELSE t1
        t3 == IF line.V2 # "" THEN t2 \o <<Sep, line.V2>> ELSE t2
        t4 == IF line.V3 # "" THEN t3 \o <<Sep, line.V3>> ELSE t3
        t5 == IF line.V4 # "" THEN t4 \o <<Sep, line.V4>> ELSE t4
        t6 == IF line.V5 # "" THEN t5 \o <<Sep, line.V5>> ELSE t5
    IN  t6

\* persist.LoadPolicyLine(lineText, model): the line is split at the
\* separators, the first token is the policy type, the rest is the rule,
\* appended to that type's policy
RECURSIVE SplitLine(_)
SplitLine(text) ==
    IF text = <<>> THEN <<>>
    ELSE IF Head(text) = Sep THEN SplitLine(Tail(text))
    ELSE <<Head(text)>> \o SplitLine(Tail(text))

loadPolicyLine(line, model) ==
    LET tokens == SplitLine(lineText(line))
        key == Head(tokens)
    IN  [model EXCEPT ![key] = Append(@, Tail(tokens))]

\* ptype followed by the fields of rule, joined by the separator
RECURSIVE Joined(_, _)
Joined(head, rule) ==
    IF rule = <<>> THEN head
    ELSE Joined(head \o <<Sep, Head(rule)>>, Tail(rule))

NonEmptyFields(rule) == \A i \in 1..Len(rule) : rule[i] # ""

---------------------------------------------------------------------------
(* The codec run: savePolicyLine, then loadPolicyLine, on one input *)

CodecOff ==
    /\ cIn = [ptype |-> "p", rule |-> <<>>]
    /\ cLine = CasbinRule
    /\ cText = <<>>
    /\ cPc = "off"

---------------------------------------------------------------------------
(* The database: relations and the driver calls the adapter makes *)

\* a relation that does not exist
NoTable == [exists |-> FALSE, rows |-> EmptyBag]

\* CREATE table IF NOT EXISTS x_policy (...)
createTable(t) == IF t.exists THEN t ELSE [exists |-> TRUE, rows |-> EmptyBag]

dropTableKeepsRows(t) == t

\* DROP table x_policy
dropTable(t) == [exists |-> FALSE, rows |-> EmptyBag]

\* a.db.Insert(&line): one more row equal to line, no uniqueness check
dbInsert(t, line) ==
    IF ~t.exists THEN [err |-> "norel", tbl |-> t]
    ELSE [err |-> "nil", tbl |-> [t EXCEPT !.rows = @ (+) SetToBag({line})]]

\* columns of CasbinRule tagged as primary key: none
PrimaryKeys == {}

Matching(t, line, cols) ==
    {r \in BagToSet(t.rows) : \A c \in cols : r[c] = line[c]}

\* a.db.Delete(&line): the driver deletes the row whose primary key is that
\* of line and wants exactly one row deleted; a struct without a primary
\* key is refused before any statement is sent ("can't use db.Delete as
\* we're not using primary key")
dbDelete(t, line) ==
    IF PrimaryKeys = {} THEN [err |-> "nopk", tbl |-> t]
    ELSE LET gone == Matching(t, line, PrimaryKeys)
             n == BagCardinality([r \in gone |-> t.rows[r]])
         IN  [err |-> IF n = 1 THEN "nil" ELSE "rows",
              tbl |-> [t EXCEPT !.rows = [r \in DOMAIN @ \ gone |-> @[r]]]]

\* every order in which a query may return the rows of a relation
RowOrders(t) ==
    {s \in [1..BagCardinality(t.rows) -> BagToSet(t.rows)] :
        \A r \in BagToSet(t.rows) :
            Cardinality({i \in DOMAIN s : s[i] = r}) = t.rows[r]}

\* every order in which range visits the keys of a map
KeyOrders(m) ==
    {s \in [1..Cardinality(DOMAIN m) -> DOMAIN m] :
        \A i, j \in DOMAIN s : s[i] = s[j] => i = j}

---------------------------------------------------------------------------
(* Models handed to SavePolicy and LoadPolicy *)

\* a model without assertions
NoModel == [p |-> <<>>, g |-> <<>>]

Models ==
    { [p |-> ("p" :> <<>>), g |-> ("g" :> <<>>)],
      [p |-> ("p" :> <<RuleA, RuleB>>), g |-> ("g" :> <<RuleG>>)],
      [p |-> ("p" :> <<RuleA>> @@ "p2" :> <<RuleB>>), g |-> ("g" :> <<>>)],
      [p |-> ("p" :> <<Fields(MaxFields)>>), g |-> ("g" :> <<RuleG, RuleG>>)] }

\* the fresh empty model LoadPolicy is handed: each type's policy is empty
FreshSink == [k \in AllPTypes |-> <<>>]

\* a row of relation policy, which the adapter never writes
ForeignRow == savePolicyLine("p", <<"carol", "data3", "read">>)

PolicyTables ==
    { NoTable,
      [exists |-> TRUE, rows |-> EmptyBag],
      [exists |-> TRUE, rows |-> SetToBag({ForeignRow})] }

RECURSIVE loadLines(_, _)
loadLines(lines, model) ==
    IF lines = <<>> THEN model
    ELSE loadLines(Tail(lines), loadPolicyLine(Head(lines), model))

\* rows of one policy type, in policy order
PolicyRows(sec, ptype, rules) ==
    [i \in 1..Len(rules) |-> [sec |-> sec, line |-> savePolicyLine(ptype, rules[i])]]

RECURSIVE SectionRows(_, _, _)
SectionRows(sec, ast, order) ==
    IF order = <<>> THEN <<>>
    ELSE PolicyRows(sec, Head(order), ast[Head(order)])
            \o SectionRows(sec, ast, Tail(order))

\* the inserts of SavePolicy: section "p", then section "g"
SaveRows(m, op, og) ==
    SectionRows("p", m.p, op) \o SectionRows("g", m.g, og)

---------------------------------------------------------------------------
(* Calls *)

NoStmt == [kind |-> "none", conn |-> "nil", line |-> CasbinRule]

Stmt(kind, line) == [kind |-> kind, conn |-> db, line |-> line]

NoCall ==
    [op |-> "none", ptype |-> "", rule |-> <<>>, fieldIndex |-> 0,
     fieldValues |-> <<>>, model |-> NoModel, err |-> "nil",
     before |-> NoTable, stmt |-> NoStmt]

NoSaved == [ok |-> FALSE, model |-> NoModel]

\* NewAdapter: no connection yet; the database is as the environment left it
NewAdapter ==
    /\ db = "nil"
    /\ x_policy \in {NoTable, [exists |-> TRUE, rows |-> EmptyBag]}
    /\ policy \in PolicyTables
    /\ pc = "idle"
    /\ pending = <<>>
    /\ call = NoCall
    /\ sink = FreshSink
    /\ saved = NoSaved

\* a panic ends the process: nothing is enabled afterwards
Panic(c) ==
    /\ pc' = "panicked"
    /\ call' = [c EXCEPT !.err = "panic"]
    /\ pending' = <<>>

---------------------------------------------------------------------------
(* Operations of the adapter *)

\* LoadPolicy(model): open(), then "select * from policy" into lines, then
\* loadPolicyLine for each line
LoadPolicy ==
    /\ pc = "idle"
    /\ db' = "open"
    /\ saved' = saved
    /\ LET c == [NoCall EXCEPT !.op = "LoadPolicy", !.before = x_policy]
           q == [kind |-> "Query", conn |-> "open", line |-> CasbinRule]
       IN  \/ \* createTable: Exec fails, panic(err)
              /\ Panic([c EXCEPT !.stmt = [NoStmt EXCEPT !.kind = "Exec", !.conn = "open"]])
              /\ UNCHANGED <<x_policy, policy, sink>>
           \/ \* the query fails on the way to the database
              /\ x_policy' = createTable(x_policy)
              /\ call' = [c EXCEPT !.err = "io", !.stmt = q]
              /\ sink' = FreshSink
              /\ UNCHANGED <<policy, pc, pending>>
           \/ \* the relation selected from does not exist
              /\ ~policy.exists
              /\ x_policy' = createTable(x_policy)
              /\ call' = [c EXCEPT !.err = "norel", !.stmt = q]
              /\ sink' = FreshSink
              /\ UNCHANGED <<policy, pc, pending>>
           \/ /\ policy.exists
              /\ x_policy' = createTable(x_policy)
              /\ \E lines \in RowOrders(policy) :
                    sink' = loadLines(lines, FreshSink)
              /\ call' = [c EXCEPT !.stmt = q]
              /\ UNCHANGED <<policy, pc, pending>>
    /\ UNCHANGED codecVars

\* SavePolicy(model), up to its dropTable: open()
SavePolicyOpen ==
    /\ pc = "idle"
    /\ db' = "open"
    /\ saved' = NoSaved
    /\ \E m \in Models :
         LET c == [NoCall EXCEPT !.op = "SavePolicy", !.model = m,
                                 !.before = x_policy, !.err = "running",
                                 !.stmt = [NoStmt EXCEPT !.kind = "Exec", !.conn = "open"]]
         IN  \/ /\ Panic(c)
                /\ UNCHANGED x_policy
             \/ /\ x_policy' = createTable(x_policy)
                /\ call' = c
                /\ pc' = "dropTable"
                /\ \E op \in KeyOrders(m.p), og \in KeyOrders(m.g) :
                       pending' = SaveRows(m, op, og)
    /\ UNCHANGED <<policy, sink>>
    /\ UNCHANGED codecVars

\* SavePolicy: a.dropTable()
SavePolicyDrop ==
    /\ pc = "dropTable"
    /\ \/ /\ Panic(call)
          /\ UNCHANGED x_policy
       \/ /\ x_policy.exists
          /\ x_policy' = dropTable(x_policy)
          /\ pc' = "createTable"
          /\ UNCHANGED <<call, pending>>
    /\ UNCHANGED <<db, policy, sink, saved>>
    /\ UNCHANGED codecVars

\* SavePolicy: a.createTable()
SavePolicyCreate ==
    /\ pc = "createTable"
    /\ \/ /\ Panic(call)
          /\ UNCHANGED x_policy
       \/ /\ x_policy' = createTable(x_policy)
          /\ pc' = "insert"
          /\ UNCHANGED <<call, pending>>
    /\ UNCHANGED <<db, policy, sink, saved>>
    /\ UNCHANGED codecVars

\* SavePolicy: one a.db.Insert(&line) of the two loops
SavePolicyInsert ==
    /\ pc = "insert"
    /\ pending # <<>>
    /\ LET line == Head(pending).line
           r == dbInsert(x_policy, line)
           c == [call EXCEPT !.stmt = Stmt("Insert", line)]
       IN  \/ \* the insert fails: return err, the rows inserted so far stay
              /\ call' = [c EXCEPT !.err = "io"]
              /\ pc' = "idle"
              /\ pending' = <<>>
              /\ UNCHANGED x_policy
           \/ /\ r.err = "nil"
              /\ x_policy' = r.tbl
              /\ call' = c
              /\ pending' = Tail(pending)
              /\ UNCHANGED pc
    /\ UNCHANGED <<db, policy, sink, saved>>
    /\ UNCHANGED codecVars

\* SavePolicy: return nil
SavePolicyReturn ==
    /\ pc = "insert"
    /\ pending = <<>>
    /\ call' = [call EXCEPT !.err = "nil"]
    /\ saved' = [ok |-> TRUE, model |-> call.model]
    /\ pc' = "idle"
    /\ UNCHANGED <<db, x_policy, policy, pending, sink>>
    /\ UNCHANGED codecVars

\* what a call on a.db does: a nil a.db is dereferenced (panic); otherwise
\* the statement, when one is sent, may fail on the way (io), or the call
\* has the driver's outcome r
DriverCall(c, r, sent) ==
    \/ /\ db = "nil"
       /\ Panic(c)
       /\ UNCHANGED <<x_policy, saved>>
    \/ /\ db = "open"
       /\ sent
       /\ call' = [c EXCEPT !.err = "io"]
       /\ UNCHANGED <<x_policy, pc, pending, saved>>
    \/ /\ db = "open"
       /\ call' = [c EXCEPT !.err = r.err]
       /\ x_policy' = r.tbl
       /\ saved' = IF r.tbl = x_policy THEN saved ELSE NoSaved
       /\ UNCHANGED <<pc, pending>>

\* AddPolicy(sec, ptype, rule)
AddPolicy ==
    /\ pc = "idle"
    /\ BagCardinality(x_policy.rows) < MaxRows
    /\ \E ptype \in PTypes, rule \in Rules :
         LET line == savePolicyLine(ptype, rule)
         IN  DriverCall([NoCall EXCEPT !.op = "AddPolicy", !.ptype = ptype,
                                       !.rule = rule, !.before = x_policy,
                                       !.stmt = Stmt("Insert", line)],
                        dbInsert(x_policy, line), TRUE)
    /\ UNCHANGED <<db, policy, sink>>
    /\ UNCHANGED codecVars

\* RemovePolicy(sec, ptype, rule)
RemovePolicy ==
    /\ pc = "idle"
    /\ \E ptype \in PTypes, rule \in Rules :
         LET line == savePolicyLine(ptype, rule)
         IN  DriverCall([NoCall EXCEPT !.op = "RemovePolicy", !.ptype = ptype,
                                       !.rule = rule, !.before = x_policy,
                                       !.stmt = Stmt("Delete", line)],
                        dbDelete(x_policy, line), PrimaryKeys # {})
    /\ UNCHANGED <<db, policy, sink>>
    /\ UNCHANGED codecVars

\* the line RemoveFilteredPolicy builds; fieldValues[i-fieldIndex] of the
\* code is fv[i - fi + 1] here
filterLine(ptype, fi, fv) ==
    LET n == Len(fv)
        l0 == [CasbinRule EXCEPT !.PType = ptype]
        l1 == IF fi <= 0 /\ 0 < fi + n THEN [l0 EXCEPT !.V0 = fv[0 - fi + 1]] ELSE l0
        l2 == IF fi <= 1 /\ 1 < fi + n THEN [l1 EXCEPT !.V1 = fv[1 - fi + 1]] ELSE l1
        l3 == IF fi <= 2 /\ 2 < fi + n THEN [l2 EXCEPT !.V2 = fv[2 - fi + 1]] ELSE l2
        l4 == IF fi <= 3 /\ 3 < fi + n THEN [l3 EXCEPT !.V3 = fv[3 - fi + 1]] ELSE l3
        l5 == IF fi <= 4 /\ 4 < fi + n THEN [l4 EXCEPT !.V4 = fv[4 - fi + 1]] ELSE l4
        l6 == IF fi <= 5 /\ 5 < fi + n THEN [l5 EXCEPT !.V5 = fv[5 - fi + 1]] ELSE l5
    IN  l6

FieldIndexes == {0, 1, NumCols - 1}
FilterValues == {<<"data1">>, <<"data2">>, <<"alice", "data1">>}

\* RemoveFilteredPolicy(sec, ptype, fieldIndex, fieldValues...)
RemoveFilteredPolicy ==
    /\ pc = "idle"
    /\ \E ptype \in PTypes, fi \in FieldIndexes, fv \in FilterValues :
         LET line == filterLine(ptype, fi, fv)
         IN  DriverCall([NoCall EXCEPT !.op = "RemoveFilteredPolicy",
                                       !.ptype = ptype, !.fieldIndex = fi,
                                       !.fieldValues = fv, !.before = x_policy,
                                       !.stmt = Stmt("Delete", line)],
                        dbDelete(x_policy, line), PrimaryKeys # {})
    /\ UNCHANGED <<db, policy, sink>>
    /\ UNCHANGED codecVars

Init == NewAdapter /\ CodecOff

Next ==
    \/ LoadPolicy
    \/ SavePolicyOpen
    \/ SavePolicyDrop
    \/ SavePolicyCreate
    \/ SavePolicyInsert
    \/ SavePolicyReturn
    \/ AddPolicy
    \/ RemovePolicy
    \/ RemoveFilteredPolicy

Spec == Init /\ [][Next]_vars

---------------------------------------------------------------------------
(* The codec run as a specification of its own *)

CodecInit ==
    /\ db = "nil"
    /\ x_policy = NoTable
    /\ policy = NoTable
    /\ pc = "idle"
    /\ pending = <<>>
    /\ call = NoCall
    /\ sink = FreshSink
    /\ saved = NoSaved
    /\ cIn \in [ptype : PTypes, rule : CodecRules]
    /\ cLine = CasbinRule
    /\ cText = <<>>
    /\ cPc = "in"

Encode ==
    /\ cPc = "in"
    /\ cLine' = savePolicyLine(cIn.ptype, cIn.rule)
    /\ cPc' = "encoded"
    /\ UNCHANGED <<cIn, cText>>
    /\ UNCHANGED mainVars

Decode ==
    /\ cPc = "encoded"
    /\ cText' = lineText(cLine)
    /\ cPc' = "decoded"
    /\ UNCHANGED <<cIn, cLine>>
    /\ UNCHANGED mainVars

CodecNext == Encode \/ Decode

SpecCodec == CodecInit /\ [][CodecNext]_vars

---------------------------------------------------------------------------
(* Vocabulary of the properties *)

ValueCols == <<"V0", "V1", "V2", "V3", "V4", "V5">>

\* the bag of the elements of a sequence
SeqBag(s) ==
    [x \in {s[i] : i \in DOMAIN s} |-> Cardinality({i \in DOMAIN s : s[i] = x})]

\* the policy of type k in model m
ModelRules(m, k) ==
    IF k \in DOMAIN m.p THEN m.p[k]
    ELSE IF k \in DOMAIN m.g THEN m.g[k]
    ELSE <<>>

ModelTypes(m) == DOMAIN m.p \cup DOMAIN m.g

\* every rule of m has at most NumCols fields, none of them empty
WithinCapacity(m) ==
    \A k \in ModelTypes(m) : \A i \in DOMAIN ModelRules(m, k) :
        /\ Len(ModelRules(m, k)[i]) <= NumCols
        /\ NonEmptyFields(ModelRules(m, k)[i])

\* the rows a save of m writes: one per rule of sections "p" and "g"
ModelBag(m) ==
    LET real == UNION {{<<k, i>> : i \in DOMAIN ModelRules(m, k)} :
                                k \in ModelTypes(m)}
        row(it) == savePolicyLine(it[1], ModelRules(m, it[1])[it[2]])
    IN  [l \in {row(it) : it \in real} |->
            Cardinality({it \in real : row(it) = l})]

\* row r has policy type ptype and value fv[j] in column fi + j - 1
FilterMatch(r, ptype, fi, fv) ==
    /\ r.PType = ptype
    /\ \A j \in 1..Len(fv) : r[ValueCols[fi + j]] = fv[j]

\* the rows of table t without the rows in gone
Without(t, gone) == [r \in BagToSet(t.rows) \ gone |-> t.rows[r]]

\* no row of section "p" waits behind a row of section "g"
PBeforeG(rows) ==
    \A i, j \in DOMAIN rows : (i < j /\ rows[i].sec = "g") => rows[j].sec = "g"

Lines(rows) == [i \in DOMAIN rows |-> rows[i].line]

---------------------------------------------------------------------------
(* Properties *)

\* C1: a LoadPolicy into a fresh empty model, issued after a SavePolicy of a
\* model within capacity (here: one that holds a rule) has returned nil,
\* yields for every policy type the rules of that save (equal as unordered
\* collections), when the query itself is not lost on the way.
C1_SaveLoadRoundTrip ==
    ( /\ call.op = "LoadPolicy"
      /\ call.err \notin {"io", "panic"}
      /\ saved.ok
      /\ WithinCapacity(saved.model)
      /\ ModelBag(saved.model) # EmptyBag )
    => \A k \in AllPTypes : SeqBag(sink[k]) = SeqBag(ModelRules(saved.model, k))

\* C2: for every policy type and rule of 0 to NumCols non-empty fields, the
\* text loadPolicyLine builds from savePolicyLine(ptype, rule) is the policy
\* type followed by the fields in order, joined by ", "; split at the
\* separators it gives back the type and the rule.
C2_CodecRoundTrip ==
    ( /\ cPc = "decoded"
      /\ Len(cIn.rule) <= NumCols
      /\ NonEmptyFields(cIn.rule) )
    => /\ cText = Joined(<<cIn.ptype>>, cIn.rule)
       /\ SplitLine(cText) = <<cIn.ptype>> \o cIn.rule

C2_Witness ==
    /\ cPc = "decoded"
    /\ Len(cIn.rule) = NumCols
    /\ NonEmptyFields(cIn.rule)
    /\ cIn.rule[1] # cIn.rule[2]
    /\ Len(cText) = 2 * NumCols + 1

\* C3: AddPolicy of a rule of exactly NumCols fields succeeds and stores the
\* six fields in v0..v5 in order; AddPolicy of a longer rule reports an
\* error and stores nothing.
C3_CapacityBoundary ==
    ( /\ call.op = "AddPolicy"
      /\ call.err \notin {"io", "panic"} )
    => /\ Len(call.rule) = NumCols =>
            /\ call.err = "nil"
            /\ x_policy.rows = call.before.rows (+) SetToBag({
                   [PType |-> call.ptype, V0 |-> call.rule[1],
                    V1 |-> call.rule[2], V2 |-> call.rule[3],
                    V3 |-> call.rule[4], V4 |-> call.rule[5],
                    V5 |-> call.rule[6]]})
       /\ Len(call.rule) > NumCols =>
            /\ call.err # "nil"
            /\ x_policy = call.before

\* C4: RemoveFilteredPolicy with 0 <= fieldIndex and fieldIndex +
\* len(fieldValues) <= NumCols deletes exactly the rows of type ptype whose
\* column fieldIndex+j holds fieldValues[j] for every j, the other columns
\* being wildcards, and leaves every other row as it was.
C4_FilteredDelete ==
    ( /\ call.op = "RemoveFilteredPolicy"
      /\ 0 <= call.fieldIndex
      /\ call.fieldIndex + Len(call.fieldValues) <= NumCols )
    => x_policy.rows =
          Without(call.before,
                  {r \in BagToSet(call.before.rows) :
                      FilterMatch(r, call.ptype, call.fieldIndex, call.fieldValues)})

\* C5: RemovePolicy deletes all rows equal to the encoded rule (same type,
\* same six value columns, absent fields being "") and leaves every other
\* row as it was.
C5_RemovePolicyFrame ==
    call.op = "RemovePolicy"
    => x_policy.rows =
          Without(call.before, {savePolicyLine(call.ptype, call.rule)})

\* C6: a RemovePolicy or RemoveFilteredPolicy that reaches the database and
\* matches no stored row leaves the table as it was and returns nil.
C6_IdempotentDelete ==
    LET Hit(r) ==
            IF call.op = "RemovePolicy"
            THEN r = savePolicyLine(call.ptype, call.rule)
            ELSE FilterMatch(r, call.ptype, call.fieldIndex, call.fieldValues)
    IN  ( /\ call.op \in {"RemovePolicy", "RemoveFilteredPolicy"}
          /\ call.fieldIndex + Len(call.fieldValues) <= NumCols
          /\ call.err # "panic"
          /\ \A r \in BagToSet(call.before.rows) : ~Hit(r) )
        => /\ x_policy = call.before
           /\ call.err = "nil"

\* C7: every AddPolicy whose insert is not lost on the way to the database
\* adds exactly one row, equal to the encoded rule, and changes no other row
\* (a rule already stored is stored once more).
C7_AddPolicyOneRow ==
    ( /\ call.op = "AddPolicy"
      /\ call.err # "io" )
    => x_policy.rows = call.before.rows
                          (+) SetToBag({savePolicyLine(call.ptype, call.rule)})

\* C8: a RemoveFilteredPolicy with fieldIndex + len(fieldValues) > NumCols
\* that reaches the database reports an error, and the part of its filter
\* that lies within the six columns is not executed as a delete.
C8_FilterOutOfRange ==
    ( /\ call.op = "RemoveFilteredPolicy"
      /\ call.fieldIndex + Len(call.fieldValues) > NumCols
      /\ call.err # "panic" )
    => /\ call.err # "nil"
       /\ call.stmt.kind # "Delete"

\* C9: every public operation has the connection open from its entry on and
\* never closes it, so no query, insert or delete is handed to a connection
\* that was never opened.
C9_OpenAtEntry ==
    /\ db # "closed"
    /\ call.op # "none" => db = "open"
    /\ call.stmt.kind # "none" => call.stmt.conn = "open"

\* C10: SavePolicy is not atomic. Between its drop and its return the
\* relation is first absent and then holds exactly the rows inserted so
\* far, the rows of section "p" before those of section "g": what is still
\* to insert is missing from it.
C10_SaveNotAtomic ==
    /\ pc = "createTable" => ~x_policy.exists
    /\ pc = "insert" =>
          /\ x_policy.exists
          /\ x_policy.rows (+) SeqBag(Lines(pending)) = ModelBag(call.model)
    /\ pc \in {"dropTable", "createTable", "insert"} =>
          /\ call.op = "SavePolicy"
          /\ PBeforeG(pending)

\* a state between two inserts of a save: the relation holds some of the new
\* rows, not all, and is not what it held before the save either
C10_Witness ==
    /\ pc = "insert"
    /\ pending # <<>>
    /\ x_policy.rows # EmptyBag
    /\ call.before.rows # EmptyBag
    /\ x_policy.rows # call.before.rows
    /\ x_policy.rows # ModelBag(call.model)

====
